---------------------------- MODULE Spec2Model ----------------------------
(***************************************************************************)
(* Dots: a two-team replicator simulation (src/src/App.tsx).               *)
(*                                                                         *)
(* The model covers the rule resolver stepGrid, the nutrient engine        *)
(* runNutrients with pruneNutrients, and the driver in App: the two        *)
(* interval callbacks, 'Step once', Start/Pause, seeding (placeDot and     *)
(* handleDrop) and resetGrid.                                              *)
(*                                                                         *)
(* Every Math.random() draw of the source is a nondeterministic choice.    *)
(* stepGrid and runNutrients are therefore set valued: they return every   *)
(* result some sequence of draws produces.  Each driver action takes one   *)
(* of them and commits it, as the setGrid updater of the source does in    *)
(* one uninterrupted callback.                                             *)
(*                                                                         *)
(* The board of the source is 24 x 24.  The model runs the same code on    *)
(* scaled-down boards of the two shapes ShortSide x LongSide and           *)
(* LongSide x ShortSide, so that rows and columns of five cells exist in   *)
(* both directions.                                                        *)
(*                                                                         *)
(* Specifications:                                                         *)
(*   Spec        every driver operation, from the empty board;             *)
(*   SpecBoards  one 'Step once' on boards seeded before Start;            *)
(*   SpecBomb    rule ticks on a colony with a dot inside its blocks;      *)
(*   SpecFlow    nutrient ticks on a colony, then a seed and a rule tick;  *)
(*   SpecPause   timer ticks, Pause and 'Step once' on such a colony;      *)
(*   SpecFeed    nutrient ticks and seeds on a colony with one producer;   *)
(*   SpecReset   SpecPause with the Reset button;                          *)
(*   SpecQueue   SpecFeed with the setGrid updaters queued before they run;*)
(*   SpecBreach  rule ticks on a bomb that has an open front beside it;    *)
(*   SpecTwin    rule ticks on two bombs that arm in the same tick;        *)
(*   SpecCorridor nutrient ticks on a corridor of four blocks, on a board  *)
(*               one column wider;                                         *)
(*   SpecTokens  SpecFlow with Pause and 'Step once'.                      *)
(* The boards these start from are boards the driver reaches: a board      *)
(* seeded before Start, timer ticks, and a seed.                           *)
(***************************************************************************)
EXTENDS Integers, Sequences, FiniteSets, TLC

VARIABLES
    shape,        \* <<rows, cols>> of the board: grid.length, grid[0].length
    grid,         \* useState<Grid>: cell -> [state, team, health]
    nutrients,    \* nutrientsRef.current: sequence of tokens, in array order
    nutrientTick, \* nutrientTickRef.current
    nextId,       \* number of tokens created so far (token ids are fresh)
    running,      \* useState(false): both intervals exist only while running
    blasts,       \* useState blastCells: cells the last stepGrid reported
    queue,        \* the setGrid updaters dispatched and not yet run by React
    last,         \* history: the last operation, its inputs and its phases
    used          \* history: how many seeds, rule ticks, nutrient ticks ran

vars == <<shape, grid, nutrients, nutrientTick, nextId, running, blasts, queue, last, used>>

---------------------------------------------------------------------------
(* Bounds of the model.                                                    *)

ShortSide == 3
LongSide == 5
MaxSeeds == 2
MaxTicks == 1
MaxNutrientTicks == 1
MaxProducers == 2
MaxBombTicks == 3
MaxBreachTicks == 2
MaxFlowTicks == 8
MaxFeedTicks == 3
MaxCorridorTicks == 4
MaxQueue == 2

---------------------------------------------------------------------------
(* Types and constants of the source.                                      *)

Teams == {"blue", "green"}
NoTeam == "none"
NoHealth == -1
CellStates == {"empty", "dot", "producer", "block", "bomb-armed", "bomb-hot"}

CARDINALS == << <<1, 0>>, <<-1, 0>>, <<0, 1>>, <<0, -1>> >>
DIAGONALS == << <<1, 1>>, <<1, -1>>, <<-1, 1>>, <<-1, -1>> >>
ALL_NEIGHBORS == CARDINALS \o DIAGONALS
MAX_HEALTH == 3
PRODUCE_EVERY == 6
MAX_NUTRIENTS_PER_CELL == 1

Shapes == {<<ShortSide, LongSide>>, <<LongSide, ShortSide>>}
rows == shape[1]
cols == shape[2]
Cells == (0 .. rows - 1) \X (0 .. cols - 1)
NoCell == <<-1, -1>>

Cell(state, team, health) == [state |-> state, team |-> team, health |-> health]
EmptyCell == Cell("empty", NoTeam, NoHealth)
Dot(team) == Cell("dot", team, 0)

\* (cell.health ?? 0)
hp(cell) == IF cell.health = NoHealth THEN 0 ELSE cell.health

createEmptyGrid == [x \in Cells |-> EmptyCell]

inBounds(x) == x[1] >= 0 /\ x[1] < rows /\ x[2] >= 0 /\ x[2] < cols

Plus(x, d) == <<x[1] + d[1], x[2] + d[2]>>

isDotLike(cell) == cell.state = "dot" \/ cell.state = "producer"

isBomb(cell) == cell.state = "bomb-armed" \/ cell.state = "bomb-hot"

Min(a, b) == IF a < b THEN a ELSE b
Max(a, b) == IF a > b THEN a ELSE b

\* Every way to pick one option per key: the independent random draws of a
\* loop.  opts is a function from keys to non-empty sets of options.
RECURSIVE Choices(_)
Choices(opts) ==
    IF DOMAIN opts = {} THEN {<<>>}
    ELSE LET k == CHOOSE k \in DOMAIN opts : TRUE
             rest == [j \in DOMAIN opts \ {k} |-> opts[j]]
         IN  {(k :> v) @@ f : v \in opts[k], f \in Choices(rest)}

\* shuffled(items): every order Fisher-Yates can produce, i.e. every
\* permutation of the sequence.
shuffled(items) ==
    LET n == Len(items)
    IN  {[i \in 1 .. n |-> items[p[i]]] :
            p \in {q \in [1 .. n -> 1 .. n] : \A i, j \in 1 .. n : q[i] = q[j] => i = j}}

hasEnemyNeighbor(g, x, team) ==
    IF team = NoTeam THEN FALSE
    ELSE \E i \in 1 .. 4 :
            LET n == Plus(x, CARDINALS[i])
            IN  /\ inBounds(n)
                /\ g[n].team # NoTeam
                /\ g[n].team # team
                /\ g[n].state # "empty"

---------------------------------------------------------------------------
(* stepGrid, phase by phase.                                               *)

\* The 3x3 part of collectBlastCells.
blastBox(x) ==
    {n \in {Plus(x, <<dr, dc>>) : dr \in -1 .. 1, dc \in -1 .. 1} : inBounds(n)}

\* The spill candidates of collectBlastCells, as the source lists them.
blastSpill(x) ==
    {n \in {Plus(x, <<2, 0>>), Plus(x, <<-2, 0>>), Plus(x, <<0, 2>>), Plus(x, <<0, -2>>),
            Plus(x, <<1, 1>>), Plus(x, <<1, -1>>), Plus(x, <<-1, 1>>), Plus(x, <<-1, -1>>)} :
        inBounds(n)}

\* collectBlastCells with the corners of the 3x3 left to the spill draws.
collectBlastCellsCross(x, picked) ==
    ({x} \cup {n \in {Plus(x, CARDINALS[i]) : i \in 1 .. 4} : inBounds(n)})
        \cup (blastSpill(x) \cap picked)

\* collectBlastCells(r, c, rows, cols): the 3x3 and the spill candidates whose
\* draw was below 0.25 (picked).
collectBlastCells(x, picked) == blastBox(x) \cup (blastSpill(x) \cap picked)

\* Bomb triggers: the number of opposing blocks in the 8-neighbourhood.
walls(g, x) ==
    Cardinality({i \in 1 .. 8 :
        LET n == Plus(x, ALL_NEIGHBORS[i])
        IN  inBounds(n) /\ g[n].state = "block" /\ g[n].team # g[x].team})

\* toArm with the threshold off by one.
toArmStrict(g) == {x \in Cells : isDotLike(g[x]) /\ walls(g, x) > 4}

toArm(g) == {x \in Cells : isDotLike(g[x]) /\ walls(g, x) >= 4}
toHot(g) == {x \in Cells : g[x].state = "bomb-armed"}
toExplode(g) == {x \in Cells : g[x].state = "bomb-hot"}

\* applyBombs with an armed bomb falling back to a dot.
applyBombsFizzle(g) ==
    [x \in Cells |->
        IF x \in toHot(g) THEN Cell("dot", g[x].team, 0)
        ELSE IF x \in toArm(g) THEN Cell("bomb-armed", g[x].team, NoHealth)
        ELSE g[x]]

\* Apply newly armed bombs, then advance armed -> hot.
applyBombs(g) ==
    [x \in Cells |->
        IF x \in toHot(g) THEN Cell("bomb-hot", g[x].team, NoHealth)
        ELSE IF x \in toArm(g) THEN Cell("bomb-armed", g[x].team, NoHealth)
        ELSE g[x]]

\* One blast cell: a bomb is destroyed, anything else survives its roll or is
\* emptied.
blastCell(cell, survive) ==
    IF ~isBomb(cell) /\ survive THEN cell ELSE EmptyCell

\* Handle explosions: every footprint the spill draws can give and every
\* outcome of the survival rolls.  A cell listed twice in blastCells is rolled
\* twice and survives only if both rolls do, which is again 'kept or emptied'.
\* The roll of an empty cell changes nothing and is not enumerated.  survived
\* is the set of the cells whose rolls were all below the survival chance.
explosions(g, next) ==
    IF toExplode(g) = {} THEN {[grid |-> next, blasts |-> {}, survived |-> {}]}
    ELSE LET spill == UNION {blastSpill(b) : b \in toExplode(g)}
             prints == {UNION {collectBlastCells(b, P) : b \in toExplode(g)} :
                          P \in SUBSET spill}
         IN  UNION {
               {[grid |-> [x \in Cells |->
                             IF x \in F THEN blastCell(next[x], x \in S) ELSE next[x]],
                 blasts |-> F,
                 survived |-> S] :
                  S \in SUBSET {x \in F : ~isBomb(next[x]) /\ next[x].state # "empty"}} :
               F \in prints}

\* tryDirection that attacks an enemy neighbour before it looks beyond it.
tryDirectionAttackFirst(g, x, d) ==
    LET n == Plus(x, d)
        rr == Plus(n, d)
    IN  IF ~inBounds(n) THEN NoCell
        ELSE IF g[n].state = "empty" THEN n
        ELSE IF g[n].state = "dot" \/ g[n].state = "producer"
             THEN IF g[n].team # g[x].team THEN n
                  ELSE IF inBounds(rr) /\ g[rr].state = "empty" THEN rr
                  ELSE NoCell
        ELSE NoCell

\* tryDirection that extends the line over an empty neighbour too.
tryDirectionLeap(g, x, d) ==
    LET n == Plus(x, d)
        rr == Plus(n, d)
    IN  IF ~inBounds(n) THEN NoCell
        ELSE IF g[n].state = "empty" THEN (IF inBounds(rr) THEN rr ELSE n)
        ELSE IF g[n].state = "dot" \/ g[n].state = "producer"
             THEN IF inBounds(rr) /\ g[rr].state = "empty" THEN rr
                  ELSE IF g[n].team # g[x].team THEN n
                  ELSE NoCell
        ELSE NoCell

\* One direction of the replication scan of the cell at x: the target of the
\* intent it pushes, or NoCell when the loop goes on to the next direction.
tryDirection(g, x, d) ==
    LET n == Plus(x, d)
        rr == Plus(n, d)
    IN  IF ~inBounds(n) THEN NoCell
        ELSE IF g[n].state = "empty" THEN n
        ELSE IF g[n].state = "dot" \/ g[n].state = "producer"
             THEN IF inBounds(rr) /\ g[rr].state = "empty" THEN rr
                  ELSE IF g[n].team # g[x].team THEN n
                  ELSE NoCell
        ELSE NoCell

\* for (const [dr, dc] of dirs) ... break: the first direction, in the order
\* dirs of the indices of CARDINALS, that pushes an intent.
RECURSIVE firstIntent(_, _, _)
firstIntent(tried, dirs, i) ==
    IF i > Len(dirs) THEN NoCell
    ELSE IF tried[dirs[i]] # NoCell THEN tried[dirs[i]]
    ELSE firstIntent(tried, dirs, i + 1)

\* shuffled(CARDINALS), as orders of the indices of CARDINALS.
ShuffledCardinals == shuffled(<<1, 2, 3, 4>>)

\* The targets the cell at x can choose, over every shuffle of CARDINALS.
intentTargets(g, x) ==
    LET tried == [i \in 1 .. 4 |-> tryDirection(g, x, CARDINALS[i])]
    IN  {firstIntent(tried, dirs, 1) : dirs \in ShuffledCardinals}

\* Rule 1 + 2: every way the scan can fill spawnIntents, as a function from
\* the scanned cell to the target of its intent (NoCell: it pushed none).
spawnIntents(g) ==
    Choices([x \in {y \in Cells : isDotLike(g[y])} |-> intentTargets(g, x)])

\* resolveIntent with the team left out of a spawned dot.
resolveIntentUnowned(cell, team) ==
    IF cell.state = "empty" THEN Cell("dot", NoTeam, 0)
    ELSE IF cell.team # NoTeam /\ cell.team # team
         THEN IF hp(cell) > 0
              THEN [cell EXCEPT !.health = Max(0, hp(cell) - 1)]
              ELSE Dot(team)
    ELSE cell

\* resolveIntent without the health test: every attack captures.
resolveIntentNoDefence(cell, team) ==
    IF cell.state = "empty" THEN Dot(team)
    ELSE IF cell.team # NoTeam /\ cell.team # team THEN Dot(team)
    ELSE cell

\* One intent of the resolution loop, on the cell it targets.
resolveIntent(cell, team) ==
    IF cell.state = "empty" THEN Dot(team)
    ELSE IF cell.team # NoTeam /\ cell.team # team
         THEN IF hp(cell) > 0
              THEN [cell EXCEPT !.health = Max(0, hp(cell) - 1)]
              ELSE Dot(team)
    ELSE cell

RECURSIVE resolveSeq(_, _, _)
resolveSeq(cell, teams, i) ==
    IF i > Len(teams) THEN cell
    ELSE resolveSeq(resolveIntent(cell, teams[i]), teams, i + 1)

\* Every sequence with nb times "blue" and ng times "green".
RECURSIVE Arrangements(_, _)
Arrangements(nb, ng) ==
    IF nb = 0 /\ ng = 0 THEN {<<>>}
    ELSE (IF nb > 0 THEN {<<"blue">> \o s : s \in Arrangements(nb - 1, ng)} ELSE {})
         \cup (IF ng > 0 THEN {<<"green">> \o s : s \in Arrangements(nb, ng - 1)} ELSE {})

\* shuffled(spawnIntents): an intent touches only next[target], so of the
\* shuffle only the order among the intents of one target matters, and of
\* those only their teams.  An order is a function from each target to the
\* teams of its intents in the order they are resolved.
intentOrders(g, intents) ==
    LET targets == {intents[x] : x \in DOMAIN intents} \ {NoCell}
        count(t, team) ==
            Cardinality({x \in DOMAIN intents : intents[x] = t /\ g[x].team = team})
    IN  Choices([t \in targets |-> Arrangements(count(t, "blue"), count(t, "green"))])

resolveIntents(next, order) ==
    [x \in Cells |->
        IF x \in DOMAIN order THEN resolveSeq(next[x], order[x], 1) ELSE next[x]]

\* Rule 3-6: the centers of the horizontal and vertical windows of five.
centers(next) ==
    {<<r, c + 2>> : <<r, c>> \in
        {w \in (0 .. rows - 1) \X (0 .. cols - 5) :
            /\ \A k \in 0 .. 4 : isDotLike(next[<<w[1], w[2] + k>>])
            /\ \A k \in 0 .. 4 : next[<<w[1], w[2] + k>>].team = next[w].team}}
    \cup
    {<<r + 2, c>> : <<r, c>> \in
        {w \in (0 .. rows - 5) \X (0 .. cols - 1) :
            /\ \A k \in 0 .. 4 : isDotLike(next[<<w[1] + k, w[2]>>])
            /\ \A k \in 0 .. 4 : next[<<w[1] + k, w[2]>>].team = next[w].team}}

openNeighbors(next, x) ==
    {n \in {Plus(x, CARDINALS[i]) : i \in 1 .. 4} : inBounds(n) /\ next[n].state = "empty"}

burstCorners(x) == {n \in {Plus(x, DIAGONALS[i]) : i \in 1 .. 4} : inBounds(n)}

\* burst that leaves occupied corners as they are.
burstGentle(next, x) ==
    [y \in Cells |->
        IF y = x THEN EmptyCell
        ELSE IF y \in burstCorners(x) /\ next[y].state = "empty"
             THEN Cell("dot", next[x].team, NoHealth)
        ELSE next[y]]

\* Burst: remove center and fill corners; occupied corners become blocks.
burst(next, x) ==
    [y \in Cells |->
        IF y = x THEN EmptyCell
        ELSE IF y \in burstCorners(x)
             THEN IF next[y].state = "empty"
                  THEN Cell("dot", next[x].team, NoHealth)
                  ELSE Cell("block", next[x].team, NoHealth)
        ELSE next[y]]

\* moveCenter that does not clear the center.
moveCenterCopy(next, x, n) ==
    [y \in Cells |->
        IF y = n THEN Cell("dot", next[x].team, next[x].health) ELSE next[y]]

\* The move of a center to the open neighbour n.
moveCenter(next, x, n) ==
    [y \in Cells |->
        IF y = n THEN Cell("dot", next[x].team, next[x].health)
        ELSE IF y = x THEN EmptyCell
        ELSE next[y]]

\* One center of the resolution loop, from a state s of the loop:
\* s.grid is next, s.todo the centers not yet visited, s.visits the centers
\* visited so far, in order, each with the neighbour drawn for its move
\* (NoCell when it did not move).
resolveCenter(s, x) ==
    LET todo == s.todo \ {x}
    IN  IF s.grid[x].state # "dot"
        THEN {[s EXCEPT !.todo = todo, !.visits = Append(@, <<x, NoCell>>)]}
        ELSE IF openNeighbors(s.grid, x) # {}
        THEN {[s EXCEPT !.todo = todo,
                        !.grid = moveCenter(s.grid, x, n),
                        !.moved = @ \cup {<<x, n>>},
                        !.visits = Append(@, <<x, n>>)] : n \in openNeighbors(s.grid, x)}
        ELSE {[s EXCEPT !.todo = todo,
                        !.grid = burst(s.grid, x),
                        !.burst = @ \cup {x},
                        !.corners = @ \cup burstCorners(x),
                        !.visits = Append(@, <<x, NoCell>>)]}

\* shuffled(Array.from(centers)).forEach: every order of visiting the centers.
RECURSIVE resolveCenters(_, _)
resolveCenters(states, n) ==
    IF n = 0 THEN states
    ELSE resolveCenters(UNION {UNION {resolveCenter(s, x) : x \in s.todo} : s \in states},
                        n - 1)

\* The rule 3-6 part of stepGrid from the grid the intents left: every
\* outcome of the loop over the shuffled centers.
pressure(resolved) ==
    LET found == centers(resolved)
    IN  resolveCenters({[grid |-> resolved, todo |-> found, found |-> found,
                         moved |-> {}, burst |-> {}, corners |-> {}, visits |-> <<>>]},
                       Cardinality(found))

\* The scan of rule 1 + 2 with the shuffle of its intents: every pair of
\* intents and resolution order.  Both read the incoming grid only.
replications(g) ==
    UNION {{[intents |-> intents, order |-> order] : order \in intentOrders(g, intents)} :
           intents \in spawnIntents(g)}

\* stepGrid(grid): every StepResult the draws can give.  Besides grid and
\* blasts a result records the phases it went through: bombed is next after
\* the explosions, resolved is next after the intents.  The draws it was made
\* with are blasts and survived, intents, order and visits.
stepGrid(g) ==
    LET reps == replications(g)
    IN  UNION {UNION {
            LET resolved == resolveIntents(e.grid, rep.order)
            IN  {[grid |-> s.grid,
                  blasts |-> e.blasts,
                  survived |-> e.survived,
                  bombed |-> e.grid,
                  intents |-> rep.intents,
                  order |-> rep.order,
                  resolved |-> resolved,
                  centers |-> s.found,
                  moved |-> s.moved,
                  burst |-> s.burst,
                  corners |-> s.corners,
                  visits |-> s.visits] : s \in pressure(resolved)} :
            rep \in reps} :
            e \in explosions(g, applyBombs(g))}

---------------------------------------------------------------------------
(* pruneNutrients and runNutrients.                                        *)

NoDir == <<0, 0>>

\* A token sits on a block of its own team.
hosted(g, n) ==
    inBounds(n.pos) /\ g[n.pos].state = "block" /\ g[n.pos].team = n.team

pruneNutrients(g, ns) ==
    LET keep(n) == hosted(g, n)
    IN  SelectSeq(ns, keep)

\* bumpHealth that leaves the health as it is.
bumpHealthNone(cell) == cell

bumpHealth(cell) == [cell EXCEPT !.health = Min(MAX_HEALTH, hp(cell) + 1)]

\* feedDot that makes a producer of the fed cell whatever is beside it.
feedDotAlways(next, x, team) ==
    IF next[x].team # team \/ ~isDotLike(next[x]) THEN next
    ELSE [next EXCEPT ![x] = [bumpHealth(next[x]) EXCEPT !.state = "producer"]]

\* feedDot(nr, nc, team): the grid after feeding the cell at x.
feedDot(next, x, team) ==
    IF next[x].team # team \/ ~isDotLike(next[x]) THEN next
    ELSE LET fed == [next EXCEPT ![x] = bumpHealth(next[x])]
         IN  IF ~hasEnemyNeighbor(fed, x, team)
             THEN [fed EXCEPT ![x].state = "producer"]
             ELSE fed

\* friendlyDots of handleDeadEnd, in the scan order of CARDINALS.
friendlyDots(next, n) ==
    SelectSeq([i \in 1 .. 4 |-> Plus(n.pos, CARDINALS[i])],
              LAMBDA x : inBounds(x) /\ next[x].team = n.team /\ isDotLike(next[x]))

handleDeadEnd(next, n) ==
    IF Len(friendlyDots(next, n)) > 0
    THEN feedDot(next, friendlyDots(next, n)[1], n.team)
    ELSE next

\* wallNeighborDirs that keeps the reverse of prev.
wallNeighborDirsAll(next, x, team, prev) ==
    {d \in {CARDINALS[i] : i \in 1 .. 4} :
        /\ inBounds(Plus(x, d))
        /\ next[Plus(x, d)].state = "block"
        /\ next[Plus(x, d)].team = team}

\* wallNeighborDirs(r, c, team, prev): the directions to a block of the team,
\* without the reverse of prev when prev is given and there is a choice.
wallNeighborDirs(next, x, team, prev) ==
    LET dirs == {d \in {CARDINALS[i] : i \in 1 .. 4} :
                    /\ inBounds(Plus(x, d))
                    /\ next[Plus(x, d)].state = "block"
                    /\ next[Plus(x, d)].team = team}
    IN  IF prev # NoDir /\ Cardinality(dirs) > 1
        THEN {d \in dirs : ~(d[1] = -prev[1] /\ d[2] = -prev[2])}
        ELSE dirs

\* moveNutrient that slides a token on to the second cell in its direction.
moveNutrientSlide(acc, n, draw) ==
    IF ~hosted(acc.next, n) THEN acc
    ELSE IF wallNeighborDirs(acc.next, n.pos, n.team, n.dir) = {}
    THEN [acc EXCEPT !.next = handleDeadEnd(acc.next, n)]
    ELSE LET one == Plus(n.pos, draw)
             to == IF inBounds(Plus(one, draw)) THEN Plus(one, draw) ELSE one
         IN  IF acc.occupied[to] >= MAX_NUTRIENTS_PER_CELL
             THEN [acc EXCEPT !.occupied[n.pos] = @ + 1,
                              !.out = Append(@, n)]
             ELSE [acc EXCEPT !.occupied[to] = @ + 1,
                              !.out = Append(@, [n EXCEPT !.pos = to,
                                                          !.prev = n.dir,
                                                          !.dir = draw])]

\* The state of the loops of runNutrients: next, occupied, nextNutrients.
\* One token of 'Move nutrients'; draw is shuffled(dirs)[0].
moveNutrient(acc, n, draw) ==
    IF ~hosted(acc.next, n) THEN acc
    ELSE IF wallNeighborDirs(acc.next, n.pos, n.team, n.dir) = {}
    THEN [acc EXCEPT !.next = handleDeadEnd(acc.next, n)]
    ELSE LET to == Plus(n.pos, draw)
         IN  IF acc.occupied[to] >= MAX_NUTRIENTS_PER_CELL
             THEN [acc EXCEPT !.occupied[n.pos] = @ + 1,
                              !.out = Append(@, n)]
             ELSE [acc EXCEPT !.occupied[to] = @ + 1,
                              !.out = Append(@, [n EXCEPT !.pos = to,
                                                          !.prev = n.dir,
                                                          !.dir = draw])]

RECURSIVE moveNutrients(_, _, _, _)
moveNutrients(acc, ns, draws, i) ==
    IF i > Len(ns) THEN acc
    ELSE moveNutrients(moveNutrient(acc, ns[i], draws[i]), ns, draws, i + 1)

\* The draws of the move loop: for every token a direction among its
\* wallNeighborDirs (NoDir when it has none or is not hosted).  Feeding
\* changes no block, so the directions are those of the incoming grid.
moveDraws(g, ns) ==
    Choices([i \in 1 .. Len(ns) |->
        IF hosted(g, ns[i]) /\ wallNeighborDirs(g, ns[i].pos, ns[i].team, ns[i].dir) # {}
        THEN wallNeighborDirs(g, ns[i].pos, ns[i].team, ns[i].dir)
        ELSE {NoDir}])

\* The cells in the row-major order of the producer scan.
cellOrder == [i \in 1 .. rows * cols |-> <<(i - 1) \div cols, (i - 1) % cols>>]

\* spawnNutrient that lets the id of the token, which the source makes of
\* the clock, decide where the token goes.
spawnNutrientByClock(acc, x, draw) ==
    LET cell == acc.next[x]
        dirs == wallNeighborDirs(acc.next, x, cell.team, NoDir)
    IN  IF cell.state # "producer" \/ cell.team = NoTeam THEN acc
        ELSE IF dirs = {} THEN acc
        ELSE LET to == Plus(x, IF acc.id % 2 = 1 THEN CHOOSE d \in dirs : TRUE ELSE draw)
             IN  IF acc.occupied[to] >= MAX_NUTRIENTS_PER_CELL THEN acc
                 ELSE [acc EXCEPT !.occupied[to] = @ + 1,
                                  !.out = Append(@, [id |-> acc.id, pos |-> to,
                                                     team |-> cell.team, dir |-> draw,
                                                     prev |-> NoDir]),
                                  !.id = @ + 1]

\* One cell of 'Producer spawns'; id is the fresh id of the token.
spawnNutrient(acc, x, draw) ==
    LET cell == acc.next[x]
    IN  IF cell.state # "producer" \/ cell.team = NoTeam THEN acc
        ELSE IF wallNeighborDirs(acc.next, x, cell.team, NoDir) = {} THEN acc
        ELSE LET to == Plus(x, draw)
             IN  IF acc.occupied[to] >= MAX_NUTRIENTS_PER_CELL THEN acc
                 ELSE [acc EXCEPT !.occupied[to] = @ + 1,
                                  !.out = Append(@, [id |-> acc.id, pos |-> to,
                                                     team |-> cell.team, dir |-> draw,
                                                     prev |-> NoDir]),
                                  !.id = @ + 1]

RECURSIVE spawnNutrients(_, _, _)
spawnNutrients(acc, draws, i) ==
    IF i > Len(cellOrder) THEN acc
    ELSE spawnNutrients(spawnNutrient(acc, cellOrder[i],
                                      IF cellOrder[i] \in DOMAIN draws
                                      THEN draws[cellOrder[i]] ELSE NoDir),
                        draws, i + 1)

spawnDraws(next) ==
    Choices([x \in {y \in Cells : /\ next[y].state = "producer"
                                  /\ next[y].team # NoTeam
                                  /\ wallNeighborDirs(next, y, next[y].team, NoDir) # {}} |->
                wallNeighborDirs(next, x, next[x].team, NoDir)])

\* runNutrients without the test of the counter: producers emit every tick.
runNutrientsEveryTick(g, ns, tick, id) ==
    UNION {
        LET moved == moveNutrients([next |-> g, occupied |-> [x \in Cells |-> 0],
                                    out |-> <<>>, id |-> id], ns, md, 1)
        IN  {LET done == spawnNutrients(moved, sd, 1)
             IN  [grid |-> done.next, nutrients |-> done.out, id |-> done.id,
                  draws |-> <<md, sd>>] :
             sd \in spawnDraws(moved.next)} :
        md \in moveDraws(g, ns)}

\* runNutrients(grid, nutrients, tick): every result the draws can give.
\* id is the id the next new token gets; draws are the directions drawn for
\* the tokens and for the producers.
runNutrients(g, ns, tick, id) ==
    UNION {
        LET moved == moveNutrients([next |-> g, occupied |-> [x \in Cells |-> 0],
                                    out |-> <<>>, id |-> id], ns, md, 1)
        IN  IF tick % PRODUCE_EVERY = 0
            THEN {LET done == spawnNutrients(moved, sd, 1)
                  IN  [grid |-> done.next, nutrients |-> done.out, id |-> done.id,
                       draws |-> <<md, sd>>] :
                  sd \in spawnDraws(moved.next)}
            ELSE {[grid |-> moved.next, nutrients |-> moved.out, id |-> id,
                   draws |-> <<md, <<>>>>]} :
        md \in moveDraws(g, ns)}

---------------------------------------------------------------------------
(* The driver: the callbacks of App.                                       *)

NoStep ==
    [survived |-> {}, bombed |-> <<>>, intents |-> <<>>, order |-> <<>>, resolved |-> <<>>,
     centers |-> {}, moved |-> {}, burst |-> {}, corners |-> {}, visits |-> <<>>]

\* The arguments of an operation that takes none.
NoArg == [pos |-> NoCell, team |-> NoTeam, kind |-> "empty"]

\* The history of an operation: its name, the grid, token list and nutrient
\* counter it read, whether the timers ran, for a rule tick the phases of
\* stepGrid, for a seed the cell, team and kind of the chip (arg), and for a
\* nutrient tick its draws.
Did(op, step) ==
    [op |-> op, grid |-> grid, nutrients |-> nutrients, tick |-> nutrientTick,
     running |-> running, step |-> step, arg |-> NoArg, draws |-> <<>>]

\* The state on a board g that was seeded, and started or not, with no
\* nutrient tick done yet.
Setup(g) ==
    /\ grid = g
    /\ nutrients = <<>>
    /\ nutrientTick = 0
    /\ nextId = 0
    /\ running \in BOOLEAN
    /\ blasts = {}
    /\ queue = <<>>
    /\ last = [op |-> "init", grid |-> g, nutrients |-> <<>>, tick |-> 0,
               running |-> FALSE, step |-> NoStep, arg |-> NoArg, draws |-> <<>>]
    /\ used = [seeds |-> 0, ticks |-> 0, nutrientTicks |-> 0]

\* A setGrid updater that computes from the grid the operation before the
\* last one read, not from the grid the last one committed.
prevStale == last.grid

\* The argument React passes to a setGrid updater: the grid committed by the
\* updater that ran before it.
prev == grid

\* The updater of the main tick interval: stepGrid, then pruneNutrients
\* against its grid.
TickUpdate ==
    /\ \E res \in stepGrid(prev) :
        /\ grid' = res.grid
        /\ blasts' = res.blasts
        /\ nutrients' = pruneNutrients(res.grid, nutrients)
        /\ last' = Did("tick", [f \in DOMAIN NoStep |-> res[f]])
    /\ used' = [used EXCEPT !.ticks = @ + 1]
    /\ UNCHANGED <<shape, nutrientTick, nextId, running>>

\* The main tick interval, its updater run at once.
Tick(maxTicks) ==
    /\ running
    /\ used.ticks < maxTicks
    /\ TickUpdate
    /\ UNCHANGED queue

\* 'Step once': stepGrid without pruneNutrients; the button is disabled
\* while running.
StepOnce(maxTicks) ==
    /\ ~running
    /\ used.ticks < maxTicks
    /\ \E res \in stepGrid(prev) :
        /\ grid' = res.grid
        /\ blasts' = res.blasts
        /\ last' = Did("step", [f \in DOMAIN NoStep |-> res[f]])
    /\ used' = [used EXCEPT !.ticks = @ + 1]
    /\ UNCHANGED <<shape, nutrients, nutrientTick, nextId, running, queue>>

\* The updater of the nutrient interval.
NutrientUpdate ==
    /\ \E res \in runNutrients(prev, nutrients, nutrientTick, nextId) :
        /\ grid' = res.grid
        /\ nutrients' = res.nutrients
        /\ nextId' = res.id
        /\ last' = [Did("nutrient", NoStep) EXCEPT !.draws = res.draws]
    /\ nutrientTick' = nutrientTick + 1
    /\ used' = [used EXCEPT !.nutrientTicks = @ + 1]
    /\ UNCHANGED <<shape, running, blasts>>

\* The nutrient interval, its updater run at once.
NutrientTick(maxNutrientTicks) ==
    /\ running
    /\ used.nutrientTicks < maxNutrientTicks
    /\ NutrientUpdate
    /\ UNCHANGED queue

\* placeDot that does not test the target.
placeDotOver(g, team, x, kind) == [g EXCEPT ![x] = Cell(kind, team, 0)]

\* placeDot that takes a block for an empty cell.
placeDotOnBlocks(g, team, x, kind) ==
    IF g[x].state # "empty" /\ g[x].state # "block" THEN g
    ELSE [g EXCEPT ![x] = Cell(kind, team, 0)]

\* The setGrid updater of placeDot (kind "dot") and of the producer branch
\* of handleDrop (kind "producer").
placeDot(g, team, x, kind) ==
    IF g[x].state # "empty" THEN g
    ELSE [g EXCEPT ![x] = Cell(kind, team, 0)]

\* The updater of a click or a drop with the arguments arg.
SeedUpdate(arg) ==
    /\ grid' = placeDot(prev, arg.team, arg.pos, arg.kind)
    /\ last' = [Did("seed", NoStep) EXCEPT !.arg = arg]
    /\ used' = [used EXCEPT !.seeds = @ + 1]
    /\ UNCHANGED <<shape, nutrients, nutrientTick, nextId, running, blasts>>

\* A click or a drop on one of the cells, its updater run at once.
Seed(maxSeeds, cells, kinds) ==
    /\ used.seeds < maxSeeds
    /\ \E x \in cells, team \in Teams, kind \in kinds :
        SeedUpdate([pos |-> x, team |-> team, kind |-> kind])
    /\ UNCHANGED queue

\* The Start / Pause button.
ToggleRunning ==
    /\ running' = ~running
    /\ last' = Did("toggle", NoStep)
    /\ UNCHANGED <<shape, grid, nutrients, nutrientTick, nextId, blasts, queue, used>>

\* resetGrid that leaves nutrientsRef and the counter as they are.
resetGridKeepTokens ==
    /\ grid' = createEmptyGrid
    /\ running' = FALSE
    /\ blasts' = {}
    /\ last' = Did("reset", NoStep)
    /\ UNCHANGED <<shape, nutrients, nutrientTick, nextId, queue, used>>

resetGrid ==
    /\ grid' = createEmptyGrid
    /\ running' = FALSE
    /\ blasts' = {}
    /\ nutrients' = <<>>
    /\ nutrientTick' = 0
    /\ last' = Did("reset", NoStep)
    /\ UNCHANGED <<shape, nextId, queue, used>>

placed(g, x, kind, team) == [g EXCEPT ![x] = Cell(kind, team, 0)]

\* Boards seeded on the empty grid before Start.
\* Every cell seeded with a chip of one team, a producer chip on the cells P.
FullBoards ==
    {[x \in Cells |-> Cell(IF x \in P THEN "producer" ELSE "dot", team, 0)] :
        team \in Teams,
        P \in {Q \in SUBSET {x \in Cells : x[1] + x[2] <= 1} : Cardinality(Q) <= MaxProducers}}

\* One chip.
LoneBoards ==
    {placed(createEmptyGrid, x, kind, team) :
        x \in Cells, kind \in {"dot", "producer"}, team \in Teams}

\* Two chips.
PairBoards ==
    {placed(placed(createEmptyGrid, x, "dot", t1), y, kind, t2) :
        x \in Cells, y \in Cells, t1 \in Teams, t2 \in Teams, kind \in {"dot", "producer"}}

\* The windows of five cells: the horizontal ones, then the vertical ones.
Windows ==
    {[k \in 0 .. 4 |-> <<r, c + k>>] : r \in 0 .. rows - 1, c \in 0 .. cols - 5}
    \cup {[k \in 0 .. 4 |-> <<r + k, c>>] : r \in 0 .. rows - 5, c \in 0 .. cols - 1}

\* Five collinear dots of one team and nothing else.
LineBoards ==
    {[x \in Cells |-> IF \E k \in 0 .. 4 : w[k] = x THEN Dot(team) ELSE EmptyCell] :
        w \in Windows, team \in Teams}

\* Five collinear chips of one team, the third of them a producer chip.
ProducerLineBoards ==
    {placed([x \in Cells |-> IF \E k \in 0 .. 4 : w[k] = x THEN Dot(team) ELSE EmptyCell],
            w[2], "producer", team) :
        w \in Windows, team \in Teams}

cardinalNeighbors(x) == {n \in {Plus(x, CARDINALS[i]) : i \in 1 .. 4} : inBounds(n)}

\* Five collinear dots of one team whose center has a chip of that team on
\* every other cardinal neighbour, and on each diagonal neighbour of the
\* center a dot of the team, except for at most two of them, which have
\* nothing or, one of them at most, a dot of the other team.
BurstBoards ==
    UNION {UNION {
        {[x \in Cells |->
            IF x \in cardinalNeighbors(w[2]) \/ (\E k \in 0 .. 4 : w[k] = x) THEN Dot(team)
            ELSE IF x \in burstCorners(w[2]) /\ corner[x] # NoTeam THEN Dot(corner[x])
            ELSE EmptyCell] :
         corner \in {f \in [burstCorners(w[2]) -> Teams \cup {NoTeam}] :
                        /\ Cardinality({y \in DOMAIN f : f[y] # team}) <= 2
                        /\ Cardinality({y \in DOMAIN f : f[y] \in Teams \ {team}}) <= 1}} :
        team \in Teams} : w \in Windows}

\* The grids one rule tick makes of the grids S.
AfterTick(S) == UNION {{res.grid : res \in stepGrid(g)} : g \in S}

\* The boards after the first rule tick on a full board: the centers of its
\* lines of five have burst or moved, which leaves blocks and empty cells.
Colonies == AfterTick(FullBoards)

\* A colony without producers and a dot seeded on one of its empty cells
\* that has at least 4 opposing blocks around it.
Fortresses ==
    {h \in {placed(g, x, kind, team) :
                g \in AfterTick({b \in FullBoards : \A y \in Cells : b[y].state = "dot"}),
                x \in Cells, kind \in {"dot"}, team \in Teams} :
        \E x \in Cells : isDotLike(h[x]) /\ walls(h, x) >= 4}

blocksOf(g) == {x \in Cells : g[x].state = "block"}

\* Five collinear dots of one team and a sixth beside the center of the line.
WedgeBoards ==
    UNION {{placed([x \in Cells |-> IF \E k \in 0 .. 4 : w[k] = x THEN Dot(team) ELSE EmptyCell],
                   y, "dot", team) :
                y \in {z \in cardinalNeighbors(w[2]) : \A k \in 0 .. 4 : w[k] # z}} :
           w \in Windows, team \in Teams}

\* Three rule ticks on a wedge board: the grids on which the first tick left
\* two blocks and the second and the third four.
Redoubts ==
    {g3 \in AfterTick({g2 \in AfterTick({g1 \in AfterTick(WedgeBoards) :
                                            Cardinality(blocksOf(g1)) = 2}) :
                          Cardinality(blocksOf(g2)) = 4}) :
        Cardinality(blocksOf(g3)) = 4}

\* A dot seeded on an empty cell of a redoubt and one more rule tick, which
\* left a dot with at least 4 opposing blocks around it and an empty cell
\* beside it.
Encirclements ==
    {g \in AfterTick({placed(h, x, "dot", team) :
                        h \in Redoubts, x \in Cells, team \in Teams} \ Redoubts) :
        \E x \in Cells : /\ isDotLike(g[x])
                          /\ walls(g, x) >= 4
                          /\ \E n \in cardinalNeighbors(x) : g[n].state = "empty"}

\* One more rule tick, which left an armed bomb with an empty cell beside it.
Breaches ==
    {g \in AfterTick(Encirclements) :
        \E x \in Cells : /\ g[x].state = "bomb-armed"
                          /\ \E n \in cardinalNeighbors(x) : g[n].state = "empty"}

\* A fortress and a second dot seeded on it, two dots of which have at least
\* 4 opposing blocks around them.
TwinFortresses ==
    {h \in {placed(g, y, "dot", team) : g \in Fortresses, y \in Cells, team \in Teams} :
        Cardinality({x \in Cells : isDotLike(h[x]) /\ walls(h, x) >= 4}) >= 2}

\* On the board one column wider than the wide shape: every cell seeded with
\* a chip of one team, a producer chip on one cell of the first antidiagonal
\* and on one of the third.
WideBoards ==
    {[x \in Cells |-> Cell(IF x \in {p, q} THEN "producer" ELSE "dot", team, 0)] :
        team \in Teams,
        p \in {x \in Cells : x[1] + x[2] = 1},
        q \in {x \in Cells : x[1] + x[2] = 3}}

\* One rule tick on such a board, which left both producers and at least
\* four blocks.
Corridors ==
    {g \in AfterTick(WideBoards) :
        /\ Cardinality(blocksOf(g)) >= 4
        /\ Cardinality({x \in Cells : g[x].state = "producer"}) = 2}

Init == shape \in Shapes /\ Setup(createEmptyGrid) /\ running = FALSE

\* The cells a seed is tried on in runs from the empty board: a corner, two
\* edge cells and an inner cell.
SeedCells == {x \in Cells : x[1] <= 1 /\ x[2] <= 1}

Next ==
    \/ Tick(MaxTicks)
    \/ StepOnce(MaxTicks)
    \/ NutrientTick(MaxNutrientTicks)
    \/ Seed(MaxSeeds, SeedCells, {"dot", "producer"})
    \/ ToggleRunning
    \/ resetGrid

Spec == Init /\ [][Next]_vars

\* One rule tick on a board seeded before Start.
InitBoards ==
    /\ shape \in Shapes
    /\ running = FALSE
    /\ \E g \in LoneBoards \cup PairBoards \cup LineBoards \cup ProducerLineBoards
                \cup BurstBoards : Setup(g)

NextBoards == StepOnce(MaxTicks)

SpecBoards == InitBoards /\ [][NextBoards]_vars

\* The bombs of a colony under siege, while the simulation runs.
InitBomb ==
    /\ shape \in Shapes
    /\ running = TRUE
    /\ \E g \in Fortresses : Setup(g)

\* Up to MaxBombTicks rule ticks and, between the first and the last of
\* them, one nutrient tick or one producer chip dropped on any cell.
NextBomb ==
    \/ Tick(MaxBombTicks)
    \/ /\ used.ticks \in 1 .. MaxBombTicks - 1
       /\ used.seeds = 0
       /\ NutrientTick(MaxNutrientTicks)
    \/ /\ used.ticks \in 1 .. MaxBombTicks - 1
       /\ used.nutrientTicks = 0
       /\ Seed(MaxSeeds - 1, Cells, {"producer"})

SpecBomb == InitBomb /\ [][NextBomb]_vars

\* Two bombs that arm in the same tick, while the simulation runs.
InitTwin ==
    /\ shape \in Shapes
    /\ running = TRUE
    /\ \E g \in TwinFortresses : Setup(g)

NextTwin == Tick(MaxBombTicks)

SpecTwin == InitTwin /\ [][NextTwin]_vars

\* Nutrient ticks on a colony of the wider board, whose blocks form a
\* corridor of four with a producer at two of them.
InitCorridor ==
    /\ shape = <<ShortSide, LongSide + 1>>
    /\ running = TRUE
    /\ \E g \in Corridors : Setup(g)

NextCorridor == NutrientTick(MaxCorridorTicks)

SpecCorridor == InitCorridor /\ [][NextCorridor]_vars

\* An armed bomb with a row of dots beside it, while the simulation runs.
InitBreach ==
    /\ shape \in Shapes
    /\ running = TRUE
    /\ \E g \in Breaches : Setup(g)

\* Up to MaxBreachTicks rule ticks and, between the first and the last of
\* them, one nutrient tick or one dot dropped on a bomb or on a cell of
\* SeedCells.
NextBreach ==
    \/ Tick(MaxBreachTicks)
    \/ /\ used.ticks \in 1 .. MaxBreachTicks - 1
       /\ used.seeds = 0
       /\ NutrientTick(MaxNutrientTicks)
    \/ /\ used.ticks \in 1 .. MaxBreachTicks - 1
       /\ used.nutrientTicks = 0
       /\ Seed(MaxSeeds - 1, {x \in Cells : isBomb(grid[x])} \cup SeedCells, {"dot"})

SpecBreach == InitBreach /\ [][NextBreach]_vars

\* The nutrient flow of a colony, while the simulation runs: nutrient ticks,
\* then a dot dropped after the second of them and a rule tick.
InitFlow ==
    /\ shape \in Shapes
    /\ running = TRUE
    /\ \E g \in Colonies : Setup(g)

NextFlow ==
    \/ used.seeds = 0 /\ NutrientTick(MaxFlowTicks)
    \/ used.nutrientTicks = 2 /\ Seed(MaxSeeds - 1, Cells, {"dot"})
    \/ used.seeds > 0 /\ Tick(MaxTicks)

SpecFlow == InitFlow /\ [][NextFlow]_vars

\* SpecFlow with Pause and 'Step once' beside the timer tick.
NextTokens ==
    \/ used.seeds = 0 /\ NutrientTick(MaxFlowTicks)
    \/ used.nutrientTicks = 2 /\ Seed(MaxSeeds - 1, Cells, {"dot"})
    \/ used.seeds > 0 /\ Tick(MaxTicks)
    \/ used.seeds > 0 /\ ToggleRunning
    \/ used.seeds > 0 /\ StepOnce(MaxTicks)

SpecTokens == InitFlow /\ [][NextTokens]_vars

\* A colony with one producer and a dot seeded on one of its empty cells that
\* has at least 4 opposing blocks around it.
Sieges ==
    {h \in {placed(g, x, "dot", team) :
                g \in {c \in Colonies :
                          Cardinality({y \in Cells : c[y].state = "producer"}) = 1},
                x \in Cells, team \in Teams} :
        \E x \in Cells : isDotLike(h[x]) /\ walls(h, x) >= 4}

\* A siege with Pause and 'Step once': a nutrient tick first, then rule ticks
\* by the timer or by the button.
InitPause ==
    /\ shape \in Shapes
    /\ running = TRUE
    /\ \E g \in Sieges : Setup(g)

NextPause ==
    \/ used.ticks = 0 /\ NutrientTick(MaxNutrientTicks)
    \/ Tick(MaxBombTicks)
    \/ StepOnce(MaxBombTicks)
    \/ ToggleRunning

SpecPause == InitPause /\ [][NextPause]_vars

\* Feeding at the dead ends of a colony with one producer: nutrient ticks
\* and chips of either team dropped at any time on any cell.
InitFeed ==
    /\ shape \in Shapes
    /\ running = TRUE
    /\ \E g \in {c \in Colonies :
                    Cardinality({y \in Cells : c[y].state = "producer"}) = 1} : Setup(g)

NextFeed ==
    \/ NutrientTick(MaxFeedTicks)
    \/ Seed(MaxSeeds, Cells, {"dot", "producer"})

SpecFeed == InitFeed /\ [][NextFeed]_vars

\* The same siege with the Reset button.
NextReset == NextPause \/ resetGrid

SpecReset == InitPause /\ [][NextReset]_vars

\* The number of updaters of the operation op that wait in the queue.
pending(op) == Cardinality({i \in 1 .. Len(queue) : queue[i].op = op})

\* A timer callback or an event handler calls setGrid with its updater
\* while React has not yet run the updaters dispatched before.
Dispatch(op, arg) ==
    /\ Len(queue) < MaxQueue
    /\ queue' = Append(queue, [op |-> op, arg |-> arg])
    /\ UNCHANGED <<shape, grid, nutrients, nutrientTick, nextId, running, blasts, last, used>>

DispatchTick ==
    /\ running
    /\ used.ticks + pending("tick") < MaxTicks
    /\ Dispatch("tick", NoArg)

DispatchNutrient ==
    /\ running
    /\ used.nutrientTicks + pending("nutrient") < MaxFeedTicks
    /\ Dispatch("nutrient", NoArg)

DispatchSeed ==
    /\ used.seeds + pending("seed") < MaxSeeds - 1
    /\ \E x \in Cells, team \in Teams :
        Dispatch("seed", [pos |-> x, team |-> team, kind |-> "dot"])

\* React runs the updaters in the order they were dispatched.
FlushTick ==
    /\ queue # <<>>
    /\ Head(queue).op = "tick"
    /\ TickUpdate
    /\ queue' = Tail(queue)

FlushNutrient ==
    /\ queue # <<>>
    /\ Head(queue).op = "nutrient"
    /\ NutrientUpdate
    /\ queue' = Tail(queue)

FlushSeed ==
    /\ queue # <<>>
    /\ Head(queue).op = "seed"
    /\ SeedUpdate(Head(queue).arg)
    /\ queue' = Tail(queue)

\* The two timers and the user on a running colony with one producer.
NextQueue ==
    \/ DispatchTick
    \/ DispatchNutrient
    \/ DispatchSeed
    \/ FlushTick
    \/ FlushNutrient
    \/ FlushSeed

SpecQueue == InitFeed /\ [][NextQueue]_vars

TypeOK ==
    /\ shape \in Shapes
    /\ \A x \in Cells : grid[x].state \in CellStates

---------------------------------------------------------------------------
(* The claims.                                                             *)

\* The last operation was a rule tick, by the timer or by 'Step once'.
IsRuleTick == last.op \in {"tick", "step"}

occupiedCells(g) == {x \in Cells : g[x].state # "empty"}

TokensOnOwnBlocks ==
    \A i \in 1 .. Len(nutrients) : hosted(grid, nutrients[i])

\* No cell holds more than MAX_NUTRIENTS_PER_CELL of the tokens ns.
respectsCap(ns) ==
    \A x \in Cells :
        Cardinality({i \in 1 .. Len(ns) : ns[i].pos = x}) <= MAX_NUTRIENTS_PER_CELL

\* C3: a nutrient tick on a token list that respects the per-cell cap leaves
\* a token list that respects it.
OccupancyCap ==
    last.op = "nutrient" /\ respectsCap(last.nutrients) => respectsCap(nutrients)

\* The intents of the last rule tick on x contain one of another team than
\* the cell had.
attacked(x) ==
    /\ x \in DOMAIN last.step.order
    /\ \E i \in 1 .. Len(last.step.order[x]) : last.step.order[x][i] # last.grid[x].team

\* No interference with x in the last rule tick: x is in no footprint, is not
\* attacked and is no corner of a burst.
undisturbed(x) == x \notin blasts /\ ~attacked(x) /\ x \notin last.step.corners

\* C4: a rule tick arms every undisturbed dot or producer with at least 4
\* opposing blocks around it, makes every undisturbed armed bomb hot, and
\* explodes every hot bomb: its cell is no bomb any more and its in-bounds 3x3
\* is reported in blasts.  A nutrient tick or a seed changes no bomb and
\* leaves a dot or producer with at least 4 opposing blocks as it is, so the
\* three stages take three rule ticks whatever is interleaved.
BombLifecycle ==
    /\ IsRuleTick =>
        \A x \in Cells :
            /\ isDotLike(last.grid[x]) /\ walls(last.grid, x) >= 4 /\ undisturbed(x)
                => grid[x] = Cell("bomb-armed", last.grid[x].team, NoHealth)
            /\ last.grid[x].state = "bomb-armed" /\ undisturbed(x)
                => grid[x] = Cell("bomb-hot", last.grid[x].team, NoHealth)
            /\ last.grid[x].state = "bomb-hot"
                => ~isBomb(grid[x]) /\ blastBox(x) \subseteq blasts
    /\ last.op \in {"nutrient", "seed"} =>
        \A x \in Cells :
            /\ isBomb(last.grid[x]) \/ isBomb(grid[x]) => grid[x] = last.grid[x]
            /\ isDotLike(last.grid[x]) /\ walls(last.grid, x) >= 4
                => /\ isDotLike(grid[x])
                   /\ grid[x].team = last.grid[x].team
                   /\ walls(grid, x) >= 4

\* The last of MaxBombTicks ticks exploded a bomb, with a seed or a nutrient
\* tick in between.
ExplodedOnLastTick ==
    /\ last.op = "tick"
    /\ used.ticks = MaxBombTicks
    /\ used.seeds + used.nutrientTicks > 0
    /\ \E x \in Cells :
        /\ last.grid[x].state = "bomb-hot"
        /\ ~isBomb(grid[x])
        /\ blastBox(x) \subseteq blasts

\* The cell at x after the first i intents on it were resolved.
cellAfter(x, i) ==
    resolveSeq(last.step.bombed[x], SubSeq(last.step.order[x], 1, i), 1)

FirstClaimantWins ==
    IsRuleTick =>
        \A x \in DOMAIN last.step.order :
            last.step.bombed[x].state = "empty"
                => last.step.resolved[x] = Dot(last.step.order[x][1])

\* C7: one rule tick on a board whose only chip is a dot or producer at x
\* puts one new dot of its team, with health 0, on a cardinal neighbour of x
\* and changes nothing else.
LoneCellReplicates ==
    IsRuleTick =>
        \A x \in Cells :
            occupiedCells(last.grid) = {x} /\ isDotLike(last.grid[x]) =>
                \E y \in cardinalNeighbors(x) :
                    /\ grid[y] = Dot(last.grid[x].team)
                    /\ grid[x] = last.grid[x]
                    /\ occupiedCells(grid) = {x, y}

\* A lone producer in the corner has replicated.
LoneCornerReplicated ==
    /\ last.op = "step"
    /\ occupiedCells(last.grid) = {<<0, 0>>}
    /\ last.grid[<<0, 0>>].state = "producer"
    /\ Cardinality(occupiedCells(grid)) = 2

\* g holds the five dots of team on the window w and nothing else.
isLine(g, w, team) ==
    g = [x \in Cells |-> IF \E k \in 0 .. 4 : w[k] = x THEN Dot(team) ELSE EmptyCell]

\* C8, as stated: one rule tick on a board of only five collinear dots of one
\* team leaves the center empty and has moved its dot to exactly one cardinal
\* neighbour.
LineOfFiveRelocates ==
    IsRuleTick =>
        \A w \in Windows, team \in Teams :
            isLine(last.grid, w, team) =>
                /\ grid[w[2]].state = "empty"
                /\ Cardinality({n \in cardinalNeighbors(w[2]) :
                                    <<w[2], n>> \in last.step.moved}) = 1

\* C8, amended: the same when the center has all four cardinal neighbours on
\* the board and the spawns of the tick complete no other line of five; the
\* dot then sits, health kept, on one neighbour that the spawns left empty.
InnerLineOfFiveRelocates ==
    IsRuleTick =>
        \A w \in Windows, team \in Teams :
            /\ isLine(last.grid, w, team)
            /\ Cardinality(cardinalNeighbors(w[2])) = 4
            /\ last.step.centers = {w[2]}
            => /\ grid[w[2]] = EmptyCell
               /\ last.step.burst = {}
               /\ \E n \in cardinalNeighbors(w[2]) :
                    /\ last.step.moved = {<<w[2], n>>}
                    /\ last.step.resolved[n].state = "empty"
                    /\ grid[n] = Dot(team)

\* The center of an inner line of five has moved.
InnerCenterMoved ==
    /\ last.op = "step"
    /\ \E w \in Windows, team \in Teams :
        /\ isLine(last.grid, w, team)
        /\ Cardinality(cardinalNeighbors(w[2])) = 4
        /\ last.step.centers = {w[2]}
        /\ \E n \in cardinalNeighbors(w[2]) : last.step.moved = {<<w[2], n>>}
        /\ grid[w[2]] = EmptyCell

\* The window w holds five dots of one team in g and no cardinal neighbour
\* of its center is empty.
isBlockedLine(g, w) ==
    /\ \A k \in 0 .. 4 : g[w[k]].state = "dot" /\ g[w[k]].team = g[w[2]].team
    /\ \A n \in cardinalNeighbors(w[2]) : g[n].state # "empty"

deadEnded(g, n) ==
    /\ hosted(g, n)
    /\ \A i \in 1 .. 4 :
        LET y == Plus(n.pos, CARDINALS[i])
        IN  ~(inBounds(y) /\ g[y].state = "block" /\ g[y].team = n.team)

\* The first cardinal neighbour of the token, in the order down, up, right,
\* left, that is a dot or producer of its team; NoCell without one.
firstFriend(g, n) ==
    LET friends == {i \in 1 .. 4 :
                      LET y == Plus(n.pos, CARDINALS[i])
                      IN  inBounds(y) /\ g[y].team = n.team /\ isDotLike(g[y])}
    IN  IF friends = {} THEN NoCell
        ELSE Plus(n.pos, CARDINALS[CHOOSE i \in friends : \A j \in friends : i <= j])

\* The tokens of the last nutrient tick that fed the cell at x.
feeders(x) ==
    {k \in 1 .. Len(last.nutrients) :
        /\ deadEnded(last.grid, last.nutrients[k])
        /\ firstFriend(last.grid, last.nutrients[k]) = x}

\* A non-empty cell of another team lies on a cardinal neighbour of x.
enemyBeside(g, x) ==
    \E y \in cardinalNeighbors(x) : g[y].state # "empty" /\ g[y].team # g[x].team

\* C11: a nutrient tick removes every token whose host block has no block of
\* its team on a cardinal neighbour.  Each such token feeds the first dot or
\* producer of its team among the cardinal neighbours of its block, in the
\* order down, up, right, left: a cell fed by f tokens keeps its team, has
\* health min(health + f, MAX_HEALTH), and is a producer if no non-empty cell
\* of the other team is beside it, else keeps its kind.  A token without such
\* a neighbour feeds nothing, and a cell that is not fed is unchanged.
DeadEndFeeding ==
    last.op = "nutrient" =>
        /\ \A k \in 1 .. Len(last.nutrients) :
            deadEnded(last.grid, last.nutrients[k]) =>
                \A i \in 1 .. Len(nutrients) : nutrients[i].id # last.nutrients[k].id
        /\ \A x \in Cells :
            LET f == Cardinality(feeders(x))
            IN  IF f = 0 THEN grid[x] = last.grid[x]
                ELSE grid[x] = Cell(IF enemyBeside(last.grid, x)
                                    THEN last.grid[x].state ELSE "producer",
                                    last.grid[x].team,
                                    Min(MAX_HEALTH, hp(last.grid[x]) + f))

\* A token at a dead end fed a dot that has a dot of the other team beside
\* it: the dot gained 1 health and is still a dot, and the token is gone.
FedBesideEnemy ==
    /\ last.op = "nutrient"
    /\ nutrients = <<>>
    /\ \E x \in Cells :
        /\ Cardinality(feeders(x)) = 1
        /\ enemyBeside(last.grid, x)
        /\ last.grid[x].state = "dot"
        /\ grid[x].state = "dot"
        /\ grid[x].health = hp(last.grid[x]) + 1

\* C12: a seed on an empty cell makes that cell a dot or producer, as asked,
\* of the given team with health 0 and changes no other cell; a seed on a
\* non-empty cell changes no cell.  Neither changes the token list or the
\* nutrient counter.  A second seed on the same cell, with any team and
\* kind, changes nothing.
SeedOnlyOnEmpty ==
    last.op = "seed" =>
        LET x == last.arg.pos
        IN  /\ nutrients = last.nutrients
            /\ nutrientTick = last.tick
            /\ \A y \in Cells \ {x} : grid[y] = last.grid[y]
            /\ grid[x] = IF last.grid[x].state = "empty"
                         THEN Cell(last.arg.kind, last.arg.team, 0)
                         ELSE last.grid[x]
            /\ \A team \in Teams, kind \in {"dot", "producer"} :
                placeDot(grid, team, x, kind) = grid

\* With tokens on the board, a chip of the other team was dropped on a cell
\* of a colony, and the second chip dropped on that cell changed nothing.
SeededTwice ==
    /\ last.op = "seed"
    /\ used.seeds = 2
    /\ nutrients # <<>>
    /\ grid = last.grid
    /\ isDotLike(grid[last.arg.pos])
    /\ grid[last.arg.pos].team # last.arg.team
    /\ \A y \in Cells \ {last.arg.pos} : grid[y].team \in {NoTeam, last.arg.team}

\* C13: after a reset every cell is empty, there is no token, the nutrient
\* counter is 0, the timers are stopped and no blast is shown, whatever the
\* state before it was.  The state after a reset is therefore one fixed
\* state, and a second reset leaves it as it is.
ResetClears ==
    last.op = "reset" =>
        /\ \A x \in Cells : grid[x] = EmptyCell
        /\ Len(nutrients) = 0
        /\ nutrientTick = 0
        /\ ~running
        /\ blasts = {}

\* A reset while the timers ran, with a bomb, a block and a token on the
\* board and a nutrient counter above 0.
ResetUnderSiege ==
    /\ last.op = "reset"
    /\ last.running
    /\ last.tick > 0
    /\ last.nutrients # <<>>
    /\ \E x \in Cells : isBomb(last.grid[x])
    /\ \E x \in Cells : last.grid[x].state = "block"
    /\ grid = createEmptyGrid

\* A reset of the state a reset left.
ResetTwice ==
    /\ last.op = "reset"
    /\ last.grid = createEmptyGrid
    /\ last.nutrients = <<>>
    /\ last.tick = 0
    /\ ~last.running
    /\ used.ticks > 0

\* C14: the timers and the user may dispatch their updaters in any order
\* and before the earlier ones have run.  Whatever the order, the grid and
\* the token list after a tick, a nutrient tick or a seed are a result of
\* that operation on the grid, token list and nutrient counter that the
\* operation before it committed: nothing is computed from an older grid.
Serialized ==
    /\ last.op = "tick" =>
        \E res \in stepGrid(last.grid) :
            /\ grid = res.grid
            /\ nutrients = pruneNutrients(res.grid, last.nutrients)
            /\ nutrientTick = last.tick
    /\ last.op = "nutrient" =>
        \E id \in 0 .. nextId :
            \E res \in runNutrients(last.grid, last.nutrients, last.tick, id) :
                /\ grid = res.grid
                /\ nutrients = res.nutrients
                /\ nutrientTick = last.tick + 1
    /\ last.op = "seed" =>
        /\ grid = placeDot(last.grid, last.arg.team, last.arg.pos, last.arg.kind)
        /\ nutrients = last.nutrients
        /\ nutrientTick = last.tick

\* A dot dropped on an empty cell was placed after a nutrient tick that fed
\* a cell, with the updater of a timer waiting behind it: the board has the
\* dropped dot and the health the feeding gave.
SeedAfterFeeding ==
    /\ last.op = "seed"
    /\ last.grid[last.arg.pos].state = "empty"
    /\ grid[last.arg.pos] = Dot(last.arg.team)
    /\ \E x \in Cells : isDotLike(grid[x]) /\ hp(grid[x]) > 0
    /\ queue # <<>>

\* The token lists a and b have the same positions and teams, in order.
sameTokens(a, b) ==
    /\ Len(a) = Len(b)
    /\ \A i \in 1 .. Len(a) : a[i].pos = b[i].pos /\ a[i].team = b[i].team

beyondFree(g, x, d) ==
    inBounds(Plus(Plus(x, d), d)) /\ g[Plus(Plus(x, d), d)].state = "empty"

\* The neighbour of x in direction d is a dot or producer of the other team.
enemyAhead(g, x, d) ==
    /\ inBounds(Plus(x, d))
    /\ isDotLike(g[Plus(x, d)])
    /\ g[Plus(x, d)].team # g[x].team

\* C16, as stated: a dot or producer with an opposing dot or producer on a
\* cardinal neighbour emits an intent, and no intent targets the cell beyond
\* a neighbour of the opposing team.
AttackNotLeap ==
    IsRuleTick =>
        \A x \in DOMAIN last.step.intents : \A i \in 1 .. 4 :
            LET d == CARDINALS[i]
            IN  /\ enemyAhead(last.grid, x, d) => last.step.intents[x] # NoCell
                /\ last.step.intents[x] = Plus(Plus(x, d), d) =>
                    last.grid[Plus(x, d)].team = last.grid[x].team

\* C16, amended: the intent of a dot or producer targets an empty cardinal
\* neighbour, or the empty cell beyond a neighbour that is a dot or producer
\* of either team, or a neighbour that is a dot or producer of the opposing
\* team and has no empty cell beyond it.  It emits an intent whenever one of
\* its directions offers such a target.
LeapBeforeAttack ==
    IsRuleTick =>
        \A x \in DOMAIN last.step.intents :
            LET g == last.grid
                t == last.step.intents[x]
                offers(d) ==
                    /\ inBounds(Plus(x, d))
                    /\ \/ g[Plus(x, d)].state = "empty"
                       \/ isDotLike(g[Plus(x, d)]) /\ beyondFree(g, x, d)
                       \/ enemyAhead(g, x, d)
            IN  /\ isDotLike(g[x])
                /\ t = NoCell <=> \A i \in 1 .. 4 : ~offers(CARDINALS[i])
                /\ t # NoCell =>
                    \E i \in 1 .. 4 :
                        LET d == CARDINALS[i]
                        IN  \/ t = Plus(x, d) /\ g[t].state = "empty"
                            \/ /\ t = Plus(Plus(x, d), d)
                               /\ isDotLike(g[Plus(x, d)])
                               /\ beyondFree(g, x, d)
                            \/ /\ t = Plus(x, d)
                               /\ enemyAhead(g, x, d)
                               /\ ~beyondFree(g, x, d)

\* A dot spawned onto the empty cell beyond a dot of the other team, and the
\* other dot, with no empty cell beyond its neighbour, attacked.
LeaptOverEnemy ==
    /\ last.op = "step"
    /\ \E x \in DOMAIN last.step.intents : \E i \in 1 .. 4 :
        /\ enemyAhead(last.grid, x, CARDINALS[i])
        /\ last.step.intents[x] = Plus(Plus(x, CARDINALS[i]), CARDINALS[i])
        /\ grid[last.step.intents[x]] = Dot(last.grid[x].team)
    /\ \E x \in DOMAIN last.step.intents : \E i \in 1 .. 4 :
        /\ enemyAhead(last.grid, x, CARDINALS[i])
        /\ last.step.intents[x] = Plus(x, CARDINALS[i])

\* C17: a dot or producer that the arming or an explosion of a rule tick
\* has turned into a bomb or emptied emits no intent in that tick.
IntentsAfterBombs ==
    IsRuleTick =>
        \A x \in DOMAIN last.step.intents :
            ~isDotLike(last.step.bombed[x]) => last.step.intents[x] = NoCell

\* C18: when the only center of a line of five has an empty cardinal
\* neighbour after the spawns, the rule tick moves its occupant, a dot or a
\* producer, to one such neighbour with its team, health and kind, and
\* leaves the center's cell empty.
PressureMovePreserves ==
    IsRuleTick =>
        \A x \in Cells :
            last.step.centers = {x} /\ openNeighbors(last.step.resolved, x) # {} =>
                /\ grid[x].state = "empty"
                /\ \E n \in openNeighbors(last.step.resolved, x) :
                    /\ grid[n].state = last.step.resolved[x].state
                    /\ grid[n].team = last.step.resolved[x].team
                    /\ hp(grid[n]) = hp(last.step.resolved[x])

\* C19: after a rule tick a cell that held a dot or producer before it, lies
\* in no blast footprint and is no corner of a burst, is a bomb-armed cell of
\* the same team if and only if it had at least 4 opposing blocks in its
\* 8-neighbourhood before the tick.
ArmingHolds ==
    IsRuleTick =>
        \A x \in Cells :
            isDotLike(last.grid[x]) /\ x \notin blasts /\ x \notin last.step.corners =>
                (grid[x] = Cell("bomb-armed", last.grid[x].team, NoHealth)
                    <=> walls(last.grid, x) >= 4)

\* The cells a pressure move or a burst of the last rule tick put a dot on.
refilled == {m[2] : m \in last.step.moved} \cup last.step.corners

advanced == applyBombs(last.grid)

ringTwo(x) ==
    {n \in {Plus(x, <<2, 0>>), Plus(x, <<-2, 0>>), Plus(x, <<0, 2>>), Plus(x, <<0, -2>>),
            Plus(x, <<2, 2>>), Plus(x, <<2, -2>>), Plus(x, <<-2, 2>>), Plus(x, <<-2, -2>>)} :
        inBounds(n)}

\* The footprints collectBlastCells can return for a bomb at x.
footprints(x) == {collectBlastCells(x, P) : P \in SUBSET blastSpill(x)}

\* C22: the footprints of a hot bomb that a rule tick explodes are its
\* in-bounds 3x3 together with any subset of the in-bounds cells two steps
\* away in a cardinal direction or on a diagonal: each of those cells is in
\* some footprint and no other cell is in any.
SpillAtDistanceTwo ==
    IsRuleTick =>
        \A b \in toExplode(last.grid) :
            footprints(b) = {blastBox(b) \cup P : P \in SUBSET ringTwo(b)}

\* C23: a nutrient tick changes the team of no cell, changes no cell that is
\* empty, a block or a bomb, empties no cell and lowers no health.  A cell it
\* changes was fed in that tick: it is a dot or producer whose health went up,
\* to MAX_HEALTH at most, and it is what it was or a dot turned producer.
NutrientFrame ==
    last.op = "nutrient" =>
        \A x \in Cells :
            /\ grid[x].team = last.grid[x].team
            /\ ~isDotLike(last.grid[x]) => grid[x] = last.grid[x]
            /\ last.grid[x].state # "empty" => grid[x].state # "empty"
            /\ hp(grid[x]) >= hp(last.grid[x])
            /\ grid[x] # last.grid[x] =>
                /\ feeders(x) # {}
                /\ hp(grid[x]) \in hp(last.grid[x]) + 1 .. MAX_HEALTH
                /\ \/ grid[x].state = last.grid[x].state
                   \/ last.grid[x].state = "dot" /\ grid[x].state = "producer"

\* A nutrient tick fed a dot, which gained health and turned producer, while
\* blocks, empty cells and dots that were not fed stayed as they were.
FedDotTurnedProducer ==
    /\ last.op = "nutrient"
    /\ \E x \in Cells :
        /\ last.grid[x].state = "dot"
        /\ grid[x].state = "producer"
        /\ hp(grid[x]) = hp(last.grid[x]) + 1
    /\ \E y \in Cells : last.grid[y].state = "dot" /\ grid[y] = last.grid[y]
    /\ \E y \in Cells : last.grid[y].state = "block"

\* The directions from x to a block of the team on a cardinal neighbour.
blockDirs(g, x, team) ==
    {d \in {CARDINALS[i] : i \in 1 .. 4} :
        inBounds(Plus(x, d)) /\ g[Plus(x, d)].state = "block" /\ g[Plus(x, d)].team = team}

\* The cell the token came from: one step against its last direction.
reverse(d) == <<-d[1], -d[2]>>
cameFrom(n) == Plus(n.pos, reverse(n.dir))

\* The positions after the last nutrient tick of the token with the id of n.
placesOf(n) == {nutrients[i].pos : i \in {j \in 1 .. Len(nutrients) : nutrients[j].id = n.id}}

\* C24, as stated: in a nutrient tick a token on a block of its team with
\* more than one block of the team on the cardinal neighbours does not move
\* to the cell it came from; one whose only such neighbour is the cell it
\* came from moves back to it; one with any such neighbour is not removed.
NoBacktracking ==
    last.op = "nutrient" =>
        \A k \in 1 .. Len(last.nutrients) :
            LET n == last.nutrients[k]
                dirs == blockDirs(last.grid, n.pos, n.team)
            IN  hosted(last.grid, n) =>
                    /\ Cardinality(dirs) > 1 => cameFrom(n) \notin placesOf(n)
                    /\ dirs = {reverse(n.dir)} => placesOf(n) = {cameFrom(n)}
                    /\ dirs # {} => placesOf(n) # {}

\* C24: in a nutrient tick a token on a block of its team with more than one
\* block of the team on the cardinal neighbours does not move to the cell it
\* came from.  One whose only such neighbour is the cell it came from moves
\* back to it, or stays where it is when another token is on that cell after
\* the tick (the cell had reached the cap).  One with any such neighbour is
\* not removed.
BacktrackOrWait ==
    last.op = "nutrient" =>
        \A k \in 1 .. Len(last.nutrients) :
            LET n == last.nutrients[k]
                dirs == blockDirs(last.grid, n.pos, n.team)
            IN  hosted(last.grid, n) =>
                    /\ Cardinality(dirs) > 1 => cameFrom(n) \notin placesOf(n)
                    /\ dirs = {reverse(n.dir)} =>
                        \/ placesOf(n) = {cameFrom(n)}
                        \/ /\ placesOf(n) = {n.pos}
                           /\ \E j \in 1 .. Len(nutrients) :
                                nutrients[j].id # n.id /\ nutrients[j].pos = cameFrom(n)
                    /\ dirs # {} => placesOf(n) # {}

\* In one nutrient tick a token at the end of a corridor moved back to the
\* cell it came from, and a token inside a corridor, with the cell it came
\* from among its neighbours, moved on.
TurnedAtCorridorEnd ==
    /\ last.op = "nutrient"
    /\ \E k \in 1 .. Len(last.nutrients) :
        LET n == last.nutrients[k]
        IN  /\ hosted(last.grid, n)
            /\ blockDirs(last.grid, n.pos, n.team) = {reverse(n.dir)}
            /\ placesOf(n) = {cameFrom(n)}
    /\ \E k \in 1 .. Len(last.nutrients) :
        LET n == last.nutrients[k]
        IN  /\ hosted(last.grid, n)
            /\ reverse(n.dir) \in blockDirs(last.grid, n.pos, n.team)
            /\ Cardinality(blockDirs(last.grid, n.pos, n.team)) > 1
            /\ placesOf(n) # {} /\ cameFrom(n) \notin placesOf(n)

\* The cells the intents of the last rule tick target.
intentCells == {last.step.intents[x] : x \in DOMAIN last.step.intents} \ {NoCell}

\* The teams of the centers that burst with x as a corner.
burstTeams(x) ==
    {last.step.resolved[c].team : c \in {b \in last.step.burst : x \in burstCorners(b)}}

tokensBefore == {last.nutrients[i] : i \in 1 .. Len(last.nutrients)}
tokensAfter == {nutrients[i] : i \in 1 .. Len(nutrients)}

\* The token of the id of n before the last operation.
before(n) == CHOOSE m \in tokensBefore : m.id = n.id

\* C26: after a nutrient tick every token that was there before it has the
\* team it had and is where it was or one cardinal step from there on a block
\* of its team, and every other token lies on a block of its team with a
\* producer of its team on a cardinal neighbour.  After a rule tick of the
\* timer, a 'Step once' or a seed every token is a token of before, as it
\* was.
TokenSteps ==
    /\ last.op = "nutrient" =>
        \A n \in tokensAfter :
            IF \E m \in tokensBefore : m.id = n.id
            THEN /\ n.team = before(n).team
                 /\ \/ n.pos = before(n).pos
                    \/ /\ \E i \in 1 .. 4 : n.pos = Plus(before(n).pos, CARDINALS[i])
                       /\ hosted(grid, n)
            ELSE /\ hosted(grid, n)
                 /\ \E p \in cardinalNeighbors(n.pos) :
                        grid[p].state = "producer" /\ grid[p].team = n.team
    /\ last.op \in {"tick", "step", "seed"} => tokensAfter \subseteq tokensBefore

\* A nutrient tick moved a token one step along the blocks of its team and
\* created another one beside a producer.
MovedAndEmitted ==
    /\ last.op = "nutrient"
    /\ \E n \in tokensAfter :
        /\ \E m \in tokensBefore : m.id = n.id
        /\ n.pos # before(n).pos
    /\ \E n \in tokensAfter : \A m \in tokensBefore : m.id # n.id

\* The tokens the last nutrient tick created, and the producer cell a token
\* was emitted from.
newTokens ==
    {nutrients[i] : i \in {j \in 1 .. Len(nutrients) :
        \A k \in 1 .. Len(last.nutrients) : last.nutrients[k].id # nutrients[j].id}}

origin(n) == <<n.pos[1] - n.dir[1], n.pos[2] - n.dir[2]>>

\* The producers with a block of their team on a cardinal neighbour.
emitters ==
    {p \in Cells : /\ grid[p].state = "producer"
                   /\ grid[p].team \in Teams
                   /\ wallNeighborDirs(grid, p, grid[p].team, NoDir) # {}}

\* C10: a nutrient tick creates tokens only when its counter is a multiple of
\* PRODUCE_EVERY.  Every new token lies on a block of its team next to the
\* producer of that team it came from, which has such a block.  In a tick
\* that emits, each such producer adds at most one token, and adds none only
\* if one of its blocks holds a token already.
EmissionCadence ==
    last.op = "nutrient" =>
        /\ last.tick % PRODUCE_EVERY # 0 => newTokens = {}
        /\ \A n \in newTokens :
            /\ origin(n) \in emitters
            /\ n.team = grid[origin(n)].team
            /\ hosted(grid, n)
        /\ last.tick % PRODUCE_EVERY = 0 =>
            \A p \in emitters :
                LET mine == {n \in newTokens : origin(n) = p}
                IN  /\ Cardinality(mine) <= 1
                    /\ mine = {} =>
                        \E d \in wallNeighborDirs(grid, p, grid[p].team, NoDir) :
                            \E i \in 1 .. Len(nutrients) : nutrients[i].pos = Plus(p, d)

\* The tick with counter PRODUCE_EVERY emitted a token, as the tick with
\* counter 0 did.
SecondEmission ==
    /\ last.op = "nutrient"
    /\ last.tick = PRODUCE_EVERY
    /\ newTokens # {}
    /\ nextId >= 2

===========================================================================
